---- MODULE Spec2Model ----
(***************************************************************************)
(* Model of the image-detection ingestion pipeline of                      *)
(* scripts/yolo_object_detection.py (class ImageDetectionProcessor and      *)
(* main): one run connects to PostgreSQL, walks the image corpus and, per   *)
(* image, hashes it, asks the detection table whether the hash is known,    *)
(* correlates the path with a Telegram message, runs YOLO and inserts the   *)
(* detections in one transaction.                                           *)
(*                                                                         *)
(* The database is modelled with the transaction semantics psycopg2 and     *)
(* PostgreSQL give the script: the connection is not in autocommit mode, a  *)
(* failed statement leaves the transaction aborted until rollback(), a lost *)
(* connection fails every later call including rollback().                  *)
(***************************************************************************)
EXTENDS Integers, Sequences, FiniteSets, TLC

\* ------------------------------------------------------------------ bounds
MaxImages == 2      \* images in the corpus
MaxRuns   == 2      \* executions of main() over the corpus
MaxDet    == 2      \* boxes the detector returns for one image
MaxFaults == 1      \* injected failures (database, detector) per behaviour
MaxDepth  == 2      \* directories between IMAGES_DIR and a correlated file
MaxStem   == 3      \* characters in the stem of a correlated file
MaxClasses == 11    \* object classes in a summarised table
MaxTies   == 2      \* classes of a summarised table with one row more

\* ------------------------------------------------------------ optional values
None == <<>>
Some(x) == <<x>>

\* ------------------------------------------------------------- configuration
\* the channel allow-list written into get_message_id_for_image
KnownChannels == {"CheMed123", "lobelia4cosmetics", "tikvahpharma"}

\* ------------------------------------------------------------------- inputs
Digits == {"0", "1", "2", "3", "4", "5", "6", "7", "8", "9"}

DigitVal(c) ==
  CASE c = "0" -> 0 [] c = "1" -> 1 [] c = "2" -> 2 [] c = "3" -> 3
    [] c = "4" -> 4 [] c = "5" -> 5 [] c = "6" -> 6 [] c = "7" -> 7
    [] c = "8" -> 8 [] c = "9" -> 9

\* the bytes of a file; NoData: open()/read() of the file raises
NoData == "unreadable"
Contents == {"bytesA", "bytesB"}

\* hashlib.md5(bytes).hexdigest(): a non-empty hex string per content
Md5(data) == IF data = "bytesA" THEN "c4ca" ELSE "c81e"

\* the directories below IMAGES_DIR and the file stems the corpus is drawn from
CorpusPaths ==
  {[dirs |-> <<"tikvahpharma">>, stem |-> <<"1">>],
   [dirs |-> <<"tikvahpharma">>, stem |-> <<"a">>],
   [dirs |-> <<"misc">>, stem |-> <<"1">>]}

\* IMAGE_EXTENSIONS, each suffix as its characters
IMAGE_EXTENSIONS ==
  {<<".", "j", "p", "g">>, <<".", "j", "p", "e", "g">>, <<".", "p", "n", "g">>,
   <<".", "b", "m", "p">>, <<".", "g", "i", "f">>, <<".", "t", "i", "f", "f">>,
   <<".", "w", "e", "b", "p">>}

\* the upper-case letters met in the suffixes tried, with their lower case
Case == {<<"J", "j">>, <<"P", "p">>, <<"G", "g">>, <<"N", "n">>}

\* str.lower() without the case mapping
LowerOmitted(c) == c

\* str.lower(), one character
Lower(c) ==
  IF \E u \in Case : u[1] = c THEN (CHOOSE u \in Case : u[1] = c)[2] ELSE c

\* image_path.suffix.lower()
SuffixLower(ext) == [i \in 1..Len(ext) |-> Lower(ext[i])]

\* find_images: image_path.is_file() and image_path.suffix.lower() in
\* IMAGE_EXTENSIONS
IsImage(e) == e.kind = "file" /\ SuffixLower(e.ext) \in IMAGE_EXTENSIONS

\* an entry under IMAGES_DIR: its directories, the stem and the suffix of its
\* name, whether it is a regular file or a directory, and its bytes
CorpusFiles ==
  {[dirs |-> p.dirs, stem |-> p.stem, ext |-> <<".", "j", "p", "g">>,
    kind |-> "file", data |-> d] :
     p \in CorpusPaths, d \in Contents \cup {NoData}}

PathOf(f) == <<f.dirs, f.stem, f.ext>>

DistinctPaths(s) ==
  \A i, j \in 1..Len(s) : i # j => PathOf(s[i]) # PathOf(s[j])

RECURSIVE SeqsUpTo(_, _)
SeqsUpTo(S, n) ==
  IF n = 0 THEN {<<>>}
  ELSE LET shorter == SeqsUpTo(S, n - 1)
       IN shorter \cup {Append(s, x) : s \in {t \in shorter : Len(t) = n - 1}, x \in S}

\* the two contents are interchangeable: the first readable file holds bytesA
FirstReadableIsA(s) ==
  \A i \in 1..Len(s) :
    s[i].data = "bytesB" => \E j \in 1..(i - 1) : s[j].data = "bytesA"

Corpora ==
  {s \in SeqsUpTo(CorpusFiles, MaxImages) :
     Len(s) >= 1 /\ DistinctPaths(s) /\ FirstReadableIsA(s)}

\* rows of raw.telegram_messages, as (id, channel)
MessageUniverse == {<<1, "tikvahpharma">>}

\* the wider set of paths get_message_id_for_image is tried on: up to MaxDepth
\* directories, known channels or not, and every stem of up to MaxStem
\* characters
DirNames == {"tikvahpharma", "lobelia4cosmetics", "misc"}
StemChars == {"a", "1", "2"}

CorrelatedFiles ==
  {[dirs |-> d, stem |-> st, ext |-> <<".", "j", "p", "g">>,
    kind |-> "file", data |-> "bytesA"] :
     d \in SeqsUpTo(DirNames, MaxDepth),
     st \in SeqsUpTo(StemChars, MaxStem) \ {<<>>}}

\* the contents of raw.telegram_messages it is tried against
CorrelatedMessages ==
  {{},
   {<<1, "tikvahpharma">>},
   {<<2, "tikvahpharma">>, <<1, "lobelia4cosmetics">>}}

\* the wider set of entries find_images is tried on: at every depth up to
\* MaxDepth; with a listed suffix, one in upper case, one in mixed case, one
\* that only starts like a listed one, an unlisted one and none at all; and
\* directories whose name ends in a listed suffix
DirChains == {[i \in 1..n |-> "misc"] : n \in 0..MaxDepth}
SuffixList ==
  <<<<".", "j", "p", "g">>, <<".", "J", "P", "G">>, <<".", "P", "n", "g">>,
    <<".", "j", "p">>, <<".", "t", "x", "t">>, <<>>>>
SuffixRank(ext) == CHOOSE i \in 1..Len(SuffixList) : SuffixList[i] = ext
TreeEntries ==
  {[dirs |-> d, stem |-> <<"1">>, ext |-> SuffixList[i], kind |-> "file",
    data |-> "bytesA"] : d \in DirChains, i \in 1..Len(SuffixList)}
  \cup
  {[dirs |-> d, stem |-> <<"2">>, ext |-> SuffixList[1], kind |-> "dir",
    data |-> NoData] : d \in DirChains}

\* rglob yields each entry once; the order it yields them in is immaterial to
\* what find_images keeps, so one order per set of entries is tried
EntryRank(e) ==
  (Len(e.dirs) * (Len(SuffixList) + 1) + SuffixRank(e.ext)) * 2
    + (IF e.kind = "dir" THEN 1 ELSE 0)
Trees ==
  {s \in SeqsUpTo(TreeEntries, MaxImages) :
     \A i \in 1..(Len(s) - 1) : EntryRank(s[i]) < EntryRank(s[i + 1])}


\* CONFIDENCE_THRESHOLD = 0.3, in hundredths
CONFIDENCE_THRESHOLD == 30

\* What the network proposes for one image: n candidates of high confidence,
\* 0 <= n <= MaxDet, and one weak candidate. The class depends on the content,
\* and the i-th candidate has its own confidence (in hundredths) and its own
\* corners, so the boxes of one answer are pairwise different. A candidate
\* lying on the right border of the frame is clipped to it and has x1 = x2.
ClassOf(data) == IF data = "bytesA" THEN "bottle" ELSE "person"
OnBorder(data, i) == data = "bytesB" /\ i = 2
Box(data, i) ==
  [cls |-> ClassOf(data), conf |-> 100 - 7 * i,
   x1 |-> 10 * i, y1 |-> 10,
   x2 |-> IF OnBorder(data, i) THEN 10 * i ELSE 10 * i + 40, y2 |-> 50]
WeakBox(data) ==
  [cls |-> ClassOf(data), conf |-> 27, x1 |-> 0, y1 |-> 0, x2 |-> 5, y2 |-> 5]
Candidates(data, n) == [i \in 1..n |-> Box(data, i)] \o <<WeakBox(data)>>

\* the detector keeps the candidates whose confidence exceeds its conf argument
Yolo(candidates, conf) == SelectSeq(candidates, LAMBDA b : b.conf > conf)

\* the call without the conf argument, the detector's own default of 0.25
InferenceDefaultConf(data, n) == Yolo(Candidates(data, n), 25)

\* self.yolo_model(str(image_path), conf=CONFIDENCE_THRESHOLD)
Inference(data, n) == Yolo(Candidates(data, n), CONFIDENCE_THRESHOLD)

DetectorAnswers(data) == {Inference(data, n) : n \in 0..MaxDet}

\* ------------------------------------------------------------ pure helpers
\* image_path.parts: the components of IMAGES_DIR, then the directories below
\* it. The last component, the file name, carries an extension and is never
\* equal to a channel name, so it is left out of the scan.
ImagesDir == <<"data", "raw", "telegram_images">>
PathParts(f) == ImagesDir \o f.dirs

\* for part in path_parts: if part in [...]: channel_name = part; break
RECURSIVE MatchChannel(_)
MatchChannel(parts) ==
  IF parts = <<>> THEN None
  ELSE IF Head(parts) \in KnownChannels THEN Some(Head(parts))
  ELSE MatchChannel(Tail(parts))

\* re.search(r'(\d+)', filename): the leftmost, longest run of digits
RECURSIVE TakeDigits(_)
TakeDigits(s) ==
  IF s = <<>> \/ Head(s) \notin Digits THEN <<>>
  ELSE <<Head(s)>> \o TakeDigits(Tail(s))

\* the rightmost run of digits instead of the leftmost
RECURSIVE LastDigitRun(_)
LastDigitRun(s) ==
  IF s = <<>> THEN <<>>
  ELSE LET later == LastDigitRun(Tail(s))
       IN IF later # <<>> /\ ~(Head(s) \in Digits /\ Head(Tail(s)) \in Digits)
          THEN later
          ELSE TakeDigits(s)

RECURSIVE FirstDigitRun(_)
FirstDigitRun(s) ==
  IF s = <<>> THEN <<>>
  ELSE IF Head(s) \in Digits THEN TakeDigits(s)
  ELSE FirstDigitRun(Tail(s))

\* int(match.group(1))
RECURSIVE ToInt(_)
ToInt(ds) ==
  IF ds = <<>> THEN 0
  ELSE 10 * ToInt(SubSeq(ds, 1, Len(ds) - 1)) + DigitVal(ds[Len(ds)])

\* SELECT id FROM raw.telegram_messages WHERE id = %s AND channel = %s
FindMessage(msgs, id, channel) == <<id, channel>> \in msgs

\* the candidate id accepted without looking at what the SELECT returned
VerifiedWithoutLookup(msgs, id, channel) ==
  [message_id |-> Some(id), channel_name |-> Some(channel)]

\* the pair get_message_id_for_image returns when its lookup completes
Verified(msgs, id, channel) ==
  IF FindMessage(msgs, id, channel)
  THEN [message_id |-> Some(id), channel_name |-> Some(channel)]
  ELSE [message_id |-> None, channel_name |-> Some(channel)]

\* the pair get_message_id_for_image returns from its except clause
CorrelationFailed(channel) == [message_id |-> None, channel_name |-> None]

\* SELECT COUNT(*) FROM raw.image_detections WHERE image_hash = %s; count > 0
Ledger(rows) == {rows[i].image_hash : i \in 1..Len(rows)}

\* -------------------------------------------------------------------- state
VARIABLES
  root_exists,       \* whether IMAGES_DIR exists
  corpus,            \* the entries under IMAGES_DIR, in rglob order
  messages,          \* rows of raw.telegram_messages
  detAns,            \* per content, the answers the detector may still give
  store,             \* committed rows of raw.image_detections
  pending,           \* rows inserted by the open transaction, not committed
  txn,               \* state of self.db_conn
  run,               \* executions of main() started so far
  pc,                \* position of the running main()
  images,            \* process_all_images: the list find_images returned
  idx,               \* process_all_images: position in images
  image_hash,        \* process_image: the hash of the current image
  assoc,             \* process_image: (message_id, channel_name)
  detections,        \* the list process_image returns
  k,                 \* save_detections: the next detection to insert
  processed_count,   \* process_all_images: local counter
  total_detections,  \* process_all_images: local counter
  store_at_start,    \* the committed rows when the current run started
  faults,            \* failures injected so far
  log,               \* the lines the running main() has logged, oldest first
  prior,             \* hashes the earlier runs logged as empty, and as failed
  exit_code,         \* what the last main() returned
  other,             \* a second execution of main() on the same database
  table,             \* get_detection_summary: the rows it reads, by class
  summary,           \* get_detection_summary: the figures it logs
  files,             \* load_raw_messages: the messages of the *.json files
  loaded,            \* load_raw_messages: committed rows of raw.telegram_messages
  loader,            \* load_raw_messages: position, open transaction, runs
  telegram_quality,  \* telegram_data_quality: what it last returned
  connection,        \* DatabaseManager.connection
  answers,           \* DatabaseManager: the requests served, oldest first
  fct,               \* yolo_data_quality: the analytics rows it reads
  yolo_quality       \* yolo_data_quality: what it returned

vars == <<root_exists, corpus, messages, detAns, store, pending, txn, run, pc, images, idx,
          image_hash, assoc, detections, k, processed_count, total_detections,
          store_at_start, faults, log, prior, exit_code, other, table, summary,
          files, loaded, loader, telegram_quality, connection, answers, fct,
          yolo_quality>>

\* the variables of main() and of its second execution
pipeline == <<root_exists, corpus, messages, detAns, store, pending, txn, run, pc,
              images, idx, image_hash, assoc, detections, k, processed_count,
              total_detections, store_at_start, faults, log, prior, exit_code,
              other>>

\* the variables of the programs around it
loading == <<files, loaded, loader, telegram_quality>>
api == <<connection, answers>>
quality == <<fct, yolo_quality>>
elsewhere == <<table, summary, loading, api, quality>>

inputs == <<root_exists, corpus, messages>>
locals == <<image_hash, assoc, detections, k>>
counters == <<processed_count, total_detections>>

NoAssoc == [message_id |-> None, channel_name |-> None]

\* no summary taken
NoTable == [counts |-> <<>>, shift |-> 0]
NoSummary == [status |-> "none", total |-> 0, top_objects |-> <<>>, by_channel |-> <<>>]

\* get_detection_summary not called
SummaryIdle ==
  /\ table = NoTable
  /\ summary = NoSummary

\* load_raw_messages never run, telegram_data_quality not materialised
NoLoader == [pc |-> "idle", k |-> 0, pending |-> <<>>, runs |-> 0, done |-> 0,
             failed |-> 0, after_first |-> <<>>]
NoTelegramQuality == [status |-> "none", cause |-> "none", quality_score |-> None,
                      duplicates |-> 0, null_channels |-> 0, null_dates |-> 0]
LoadIdle ==
  /\ files = <<>>
  /\ loaded = <<>>
  /\ loader = NoLoader
  /\ telegram_quality = NoTelegramQuality

\* the API has served no request
ApiIdle ==
  /\ connection = "none"
  /\ answers = <<>>

\* yolo_data_quality not materialised
NoFct == [detections |-> <<>>, messages |-> <<>>]
NoYoloQuality == [status |-> "none"]
QualityIdle ==
  /\ fct = NoFct
  /\ yolo_quality = NoYoloQuality

\* the programs around main() at rest
ElsewhereIdle ==
  /\ SummaryIdle
  /\ LoadIdle
  /\ ApiIdle
  /\ QualityIdle

\* main() not started, nothing in its tables
PipelineIdle ==
  /\ root_exists = TRUE
  /\ corpus = <<>>
  /\ messages = {}
  /\ detAns = [c \in Contents |-> DetectorAnswers(c)]
  /\ store = <<>>
  /\ pending = <<>>
  /\ txn = "closed"
  /\ run = 0
  /\ pc = "idle"
  /\ images = <<>>
  /\ idx = 0
  /\ image_hash = ""
  /\ assoc = NoAssoc
  /\ detections = <<>>
  /\ k = 0
  /\ processed_count = 0
  /\ total_detections = 0
  /\ store_at_start = <<>>
  /\ faults = 0
  /\ log = <<>>
  /\ prior = [empty |-> {}, failed |-> {}]
  /\ exit_code = None
  /\ other = [pc |-> "absent", rows |-> <<>>, inferred |-> FALSE]

\* no second execution
NoOther == [pc |-> "absent", rows |-> <<>>, inferred |-> FALSE]

Init ==
  /\ root_exists \in BOOLEAN
  /\ corpus \in IF root_exists THEN Corpora ELSE {<<>>}
  /\ messages \in SUBSET MessageUniverse
  /\ detAns = [c \in Contents |-> DetectorAnswers(c)]
  /\ store = <<>>
  /\ pending = <<>>
  /\ txn = "closed"
  /\ run = 0
  /\ pc = "idle"
  /\ images = <<>>
  /\ idx = 0
  /\ image_hash = ""
  /\ assoc = NoAssoc
  /\ detections = <<>>
  /\ k = 0
  /\ processed_count = 0
  /\ total_detections = 0
  /\ store_at_start = <<>>
  /\ faults = 0
  /\ log = <<>>
  /\ prior = [empty |-> {}, failed |-> {}]
  /\ exit_code = None
  /\ other = NoOther
  /\ ElsewhereIdle

\* one logger line: the image it belongs to, its kind, the hash in hand,
\* whether that hash had a committed row when the line was written, and the
\* count the line reports
Line(ev, h, n) ==
  [idx |-> idx, ev |-> ev, hash |-> h,
   marked |-> h \in Ledger(store), n |-> n]

\* the hashes of the logged lines of the given kinds
LoggedHashes(evs) == {log[i].hash : i \in {j \in 1..Len(log) : log[j].ev \in evs}}

\* ----------------------------------------------------------------- database
\* How one statement sent on self.db_conn ends: an aborted transaction refuses
\* every statement until rollback, a lost connection refuses everything; a
\* healthy one completes or fails, by a statement error or by losing the
\* connection.
StmtOutcomes ==
  IF txn \in {"aborted", "broken"} THEN {"refused"}
  ELSE {"ok"} \cup (IF faults < MaxFaults THEN {"error", "lost"} ELSE {})

TxnAfter(o) ==
  CASE o = "ok" -> "intrans"
    [] o = "error" -> "aborted"
    [] o = "lost" -> "broken"
    [] o = "refused" -> txn

FaultsAfter(o) == IF o \in {"error", "lost"} THEN faults + 1 ELSE faults

\* --------------------------------------------------------------- operations
\* for image_path in images: the loop moves to the next image, or past the last
Advance ==
  IF idx < Len(images)
  THEN idx' = idx + 1 /\ pc' = "hash"
  ELSE idx' = idx /\ pc' = "summary"

\* the hashes the run that ends logged as empty and as failed, added to those of
\* the runs before it
PriorAfter ==
  [empty |-> prior.empty \cup LoggedHashes({"found_none"}),
   failed |-> prior.failed \cup LoggedHashes({"inference_failed", "save_failed"})]

\* find_images: [] with a warning when IMAGES_DIR does not exist, else the
\* entries under it that are image files, in the order rglob yields them
FindImages == IF root_exists THEN SelectSeq(corpus, IsImage) ELSE <<>>

\* create_detection_table dropping the table before it creates it
StartRunRecreatesTable ==
  /\ pc = "idle"
  /\ run < MaxRuns
  /\ run' = run + 1
  /\ txn' = "idle"
  /\ pending' = <<>>
  /\ images' = FindImages
  /\ IF FindImages = <<>>
     THEN /\ idx' = 0
          /\ pc' = "summary"
          /\ log' = IF root_exists THEN <<>> ELSE <<Line("root_missing", "", 0)>>
     ELSE /\ idx' = 1
          /\ pc' = "hash"
          /\ log' = <<>>
  /\ processed_count' = 0
  /\ total_detections' = 0
  /\ store_at_start' = store
  /\ image_hash' = ""
  /\ assoc' = NoAssoc
  /\ detections' = <<>>
  /\ k' = 0
  /\ prior' = PriorAfter
  /\ exit_code' = None
  /\ store' = <<>>
  /\ UNCHANGED <<elsewhere, inputs, other, detAns, faults>>

\* main up to the loop of process_all_images: connect_db, initialize_yolo,
\* create_detection_table (which commits), find_images; process_all_images
\* returns at once when the list is empty
StartRun ==
  /\ pc = "idle"
  /\ run < MaxRuns
  /\ run' = run + 1
  /\ txn' = "idle"
  /\ pending' = <<>>
  /\ images' = FindImages
  /\ IF FindImages = <<>>
     THEN /\ idx' = 0
          /\ pc' = "summary"
          /\ log' = IF root_exists THEN <<>> ELSE <<Line("root_missing", "", 0)>>
     ELSE /\ idx' = 1
          /\ pc' = "hash"
          /\ log' = <<>>
  /\ processed_count' = 0
  /\ total_detections' = 0
  /\ store_at_start' = store
  /\ image_hash' = ""
  /\ assoc' = NoAssoc
  /\ detections' = <<>>
  /\ k' = 0
  /\ prior' = PriorAfter
  /\ exit_code' = None
  /\ UNCHANGED <<elsewhere, inputs, other, detAns, store, faults>>

\* main when connect_db or create_detection_table raises: the except clause
\* logs "Processing failed" and returns 1, the finally clause closes
StartRunFails ==
  /\ pc = "idle"
  /\ run < MaxRuns
  /\ faults < MaxFaults
  /\ run' = run + 1
  /\ faults' = faults + 1
  /\ txn' = "closed"
  /\ pending' = <<>>
  /\ images' = <<>>
  /\ idx' = 0
  /\ pc' = "idle"
  /\ log' = <<Line("processing_failed", "", 0)>>
  /\ processed_count' = 0
  /\ total_detections' = 0
  /\ store_at_start' = store
  /\ image_hash' = ""
  /\ assoc' = NoAssoc
  /\ detections' = <<>>
  /\ k' = 0
  /\ prior' = PriorAfter
  /\ exit_code' = Some(1)
  /\ UNCHANGED <<elsewhere, inputs, other, detAns, store>>

\* process_image calling get_message_id_for_image before is_image_processed
HashSkipsGate ==
  /\ pc = "hash"
  /\ LET f == images[idx] IN
       IF f.data = NoData
       THEN /\ image_hash' = ""
            /\ log' = Append(log, Line("hash_failed", "", 0))
            /\ Advance
       ELSE /\ image_hash' = Md5(f.data)
            /\ log' = log
            /\ pc' = "correlate"
            /\ idx' = idx
  /\ assoc' = NoAssoc
  /\ detections' = <<>>
  /\ k' = 0
  /\ UNCHANGED <<elsewhere, inputs, other, exit_code, prior, detAns, store, pending, txn, run,
                 images, counters, store_at_start, faults>>

\* process_image without its "if not image_hash: return []"
HashIgnoresFailure ==
  /\ pc = "hash"
  /\ LET f == images[idx] IN
       /\ image_hash' = IF f.data = NoData THEN "" ELSE Md5(f.data)
       /\ log' = IF f.data = NoData
                 THEN Append(log, Line("hash_failed", "", 0)) ELSE log
  /\ pc' = "dedup"
  /\ idx' = idx
  /\ assoc' = NoAssoc
  /\ detections' = <<>>
  /\ k' = 0
  /\ UNCHANGED <<elsewhere, inputs, other, exit_code, prior, detAns, store, pending, txn, run, images, counters,
                 store_at_start, faults>>

\* process_image, get_image_hash: "" when the file cannot be read, and then
\* process_image returns []
Hash ==
  /\ pc = "hash"
  /\ LET f == images[idx] IN
       IF f.data = NoData
       THEN /\ image_hash' = ""
            /\ log' = Append(log, Line("hash_failed", "", 0))
            /\ Advance
       ELSE /\ image_hash' = Md5(f.data)
            /\ log' = log
            /\ pc' = "dedup"
            /\ idx' = idx
  /\ assoc' = NoAssoc
  /\ detections' = <<>>
  /\ k' = 0
  /\ UNCHANGED <<elsewhere, inputs, other, exit_code, prior, detAns, store, pending, txn, run, images, counters,
                 store_at_start, faults>>

\* what is_image_processed returns: count > 0 when the SELECT completes, False
\* from its except clause
IsImageProcessed(o, h) ==
  IF o = "ok" THEN h \in Ledger(store \o pending) ELSE FALSE

\* process_all_images counting a skipped image as processed
DedupCountsSkip ==
  /\ pc = "dedup"
  /\ \E o \in StmtOutcomes :
       /\ txn' = TxnAfter(o)
       /\ faults' = FaultsAfter(o)
       /\ IF IsImageProcessed(o, image_hash)
          THEN /\ log' = Append(log, Line("skipped", image_hash, 0))
               /\ processed_count' = processed_count + 1
               /\ Advance
          ELSE /\ log' = IF o = "ok" THEN log
                         ELSE Append(log, Line("dedup_failed", image_hash, 0))
               /\ processed_count' = processed_count
               /\ pc' = "correlate"
               /\ idx' = idx
  /\ UNCHANGED <<elsewhere, inputs, other, exit_code, prior, detAns, store, pending, run,
                 images, locals, total_detections, store_at_start>>

\* process_image: if self.is_image_processed(image_hash): skip, return []
Dedup ==
  /\ pc = "dedup"
  /\ \E o \in StmtOutcomes :
       /\ txn' = TxnAfter(o)
       /\ faults' = FaultsAfter(o)
       /\ IF IsImageProcessed(o, image_hash)
          THEN /\ log' = Append(log, Line("skipped", image_hash, 0))
               /\ Advance
          ELSE /\ log' = IF o = "ok" THEN log
                         ELSE Append(log, Line("dedup_failed", image_hash, 0))
               /\ pc' = "correlate"
               /\ idx' = idx
  /\ UNCHANGED <<elsewhere, inputs, other, exit_code, prior, detAns, store, pending, run, images, locals, counters,
                 store_at_start>>

\* the SELECT sent for every stem with a digit, before the channel is looked at
NeedsLookupIgnoresChannel(f) == FirstDigitRun(f.stem) # <<>>

\* get_message_id_for_image sends a SELECT only when a channel matched and the
\* stem holds a digit
NeedsLookup(f) ==
  MatchChannel(PathParts(f)) # None /\ FirstDigitRun(f.stem) # <<>>

\* get_message_id_for_image: o is how its SELECT ended, when it sends one
GetMessageIdForImage(f, msgs, o) ==
  LET channel == MatchChannel(PathParts(f))
      ds == FirstDigitRun(f.stem)
  IN IF channel = None THEN [message_id |-> None, channel_name |-> None]
     ELSE IF ds = <<>> THEN [message_id |-> None, channel_name |-> channel]
     ELSE IF o = "ok" THEN Verified(msgs, ToInt(ds), channel[1])
     ELSE CorrelationFailed(channel[1])

\* get_message_id_for_image without its try/except: a failed SELECT raises into
\* process_image, whose except clause returns []
CorrelateRaises ==
  /\ pc = "correlate"
  /\ LET f == images[idx] IN
       IF NeedsLookup(f)
       THEN \E o \in StmtOutcomes :
              /\ txn' = TxnAfter(o)
              /\ faults' = FaultsAfter(o)
              /\ assoc' = GetMessageIdForImage(f, messages, o)
              /\ IF o = "ok"
                 THEN log' = log /\ pc' = "detect" /\ idx' = idx
                 ELSE log' = Append(log, Line("inference_failed", image_hash, 0)) /\ Advance
       ELSE /\ assoc' = GetMessageIdForImage(f, messages, "ok")
            /\ pc' = "detect" /\ idx' = idx
            /\ UNCHANGED <<txn, faults, log>>
  /\ UNCHANGED <<elsewhere, inputs, other, exit_code, prior, detAns, store, pending, run, images, image_hash,
                 detections, k, counters, store_at_start>>

\* process_image: message_id, channel_name = self.get_message_id_for_image(...)
Correlate ==
  /\ pc = "correlate"
  /\ LET f == images[idx] IN
       IF NeedsLookup(f)
       THEN \E o \in StmtOutcomes :
              /\ txn' = TxnAfter(o)
              /\ faults' = FaultsAfter(o)
              /\ assoc' = GetMessageIdForImage(f, messages, o)
              /\ log' = IF o = "ok" THEN log
                        ELSE Append(log, Line("correlate_failed", image_hash, 0))
       ELSE /\ assoc' = GetMessageIdForImage(f, messages, "ok")
            /\ UNCHANGED <<txn, faults, log>>
  /\ pc' = "detect"
  /\ UNCHANGED <<elsewhere, inputs, other, exit_code, prior, detAns, store, pending, run, images, idx, image_hash,
                 detections, k, counters, store_at_start>>

\* the dict process_image builds for one box
Detection(f, h, a, box) ==
  [image_path |-> PathOf(f), image_hash |-> h,
   message_id |-> a.message_id, channel_name |-> a.channel_name,
   detected_object_class |-> box.cls, confidence_score |-> box.conf,
   bbox_x1 |-> box.x1, bbox_y1 |-> box.y1, bbox_x2 |-> box.x2, bbox_y2 |-> box.y2]

\* the answers the detector may give for a content: any answer the first time,
\* the same answer from then on
AnswersFor(data) == detAns[data]

\* process_image: results = self.yolo_model(...), then one dict per box; the
\* list goes back to process_all_images, which saves it only if it is non-empty
DetectOk ==
  /\ pc = "detect"
  /\ LET f == images[idx] IN
       \E ans \in AnswersFor(f.data) :
         /\ detAns' = [detAns EXCEPT ![f.data] = {ans}]
         /\ detections' = [i \in 1..Len(ans) |-> Detection(f, image_hash, assoc, ans[i])]
         /\ log' = Append(log, Line(IF ans = <<>> THEN "found_none" ELSE "found",
                                    image_hash, Len(ans)))
         /\ IF ans = <<>>
            THEN Advance /\ k' = 0
            ELSE pc' = "insert" /\ idx' = idx /\ k' = 1
  /\ UNCHANGED <<elsewhere, inputs, other, exit_code, prior, store, pending, txn, run, images, image_hash, assoc,
                 counters, store_at_start, faults>>

\* the except clause of process_image handing back a box instead of []
DetectRaisesKeepsBox ==
  /\ pc = "detect"
  /\ faults < MaxFaults
  /\ faults' = faults + 1
  /\ detections' = <<Detection(images[idx], image_hash, assoc, Box(images[idx].data, 1))>>
  /\ log' = Append(log, Line("inference_failed", image_hash, 0))
  /\ pc' = "insert"
  /\ idx' = idx
  /\ k' = 1
  /\ UNCHANGED <<elsewhere, inputs, other, exit_code, prior, detAns, store, pending, txn, run, images, image_hash,
                 assoc, counters, store_at_start>>

\* process_image: the detector raises; the except clause returns []
DetectRaises ==
  /\ pc = "detect"
  /\ faults < MaxFaults
  /\ faults' = faults + 1
  /\ detections' = <<>>
  /\ log' = Append(log, Line("inference_failed", image_hash, 0))
  /\ Advance
  /\ UNCHANGED <<elsewhere, inputs, other, exit_code, prior, detAns, store, pending, txn, run, images, image_hash,
                 assoc, k, counters, store_at_start>>

\* process_all_images after save_detections returned: both counters move
Counted ==
  /\ total_detections' = total_detections + Len(detections)
  /\ processed_count' = processed_count + 1

\* save_detections without its rollback, on a connection that keeps what was
\* inserted before the failure
SaveFailedKeepsInserts(o) ==
  /\ txn' = IF TxnAfter(o) = "broken" THEN "broken" ELSE "idle"
  /\ faults' = FaultsAfter(o)
  /\ pending' = <<>>
  /\ store' = store \o pending
  /\ log' = Append(log, Line("save_failed", image_hash, k))
  /\ Counted
  /\ Advance
  /\ k' = k

\* process_all_images without the try/except around one image: what rollback()
\* raises ends the loop
SaveFailedEndsLoop(o) ==
  /\ txn' = IF TxnAfter(o) = "broken" THEN "broken" ELSE "idle"
  /\ faults' = FaultsAfter(o)
  /\ pending' = <<>>
  /\ store' = store
  /\ log' = Append(log, Line("save_failed", image_hash, k))
  /\ IF TxnAfter(o) = "broken"
     THEN pc' = "summary" /\ idx' = idx /\ UNCHANGED counters
     ELSE Counted /\ Advance
  /\ k' = k

\* save_detections, except clause: logger.error, self.db_conn.rollback(). On a
\* lost connection rollback() raises into process_all_images, whose except
\* clause logs and continues; otherwise save_detections returns normally.
SaveFailed(o) ==
  /\ txn' = IF TxnAfter(o) = "broken" THEN "broken" ELSE "idle"
  /\ faults' = FaultsAfter(o)
  /\ pending' = <<>>
  /\ store' = store
  /\ IF TxnAfter(o) = "broken"
     THEN /\ log' = log \o <<Line("save_failed", image_hash, k),
                              Line("error_processing", image_hash, 0)>>
          /\ UNCHANGED counters
     ELSE /\ log' = Append(log, Line("save_failed", image_hash, k))
          /\ Counted
  /\ Advance
  /\ k' = k

\* save_detections: cur.execute(insert_sql, ...) for the k-th detection
Insert ==
  /\ pc = "insert"
  /\ \E o \in StmtOutcomes :
       IF o = "ok"
       THEN /\ pending' = Append(pending, detections[k])
            /\ txn' = TxnAfter(o)
            /\ IF k < Len(detections)
               THEN k' = k + 1 /\ pc' = "insert"
               ELSE k' = k /\ pc' = "commit"
            /\ UNCHANGED <<store, idx, faults, log, counters>>
       ELSE SaveFailed(o)
  /\ UNCHANGED <<elsewhere, inputs, other, exit_code, prior, detAns, run, images, image_hash, assoc, detections,
                 store_at_start>>

\* save_detections: self.db_conn.commit() after the last insert
Commit ==
  /\ pc = "commit"
  /\ \E o \in StmtOutcomes :
       IF o = "ok"
       THEN /\ store' = store \o pending
            /\ pending' = <<>>
            /\ txn' = "idle"
            /\ log' = Append(log, Line("saved", image_hash, Len(detections)))
            /\ Counted
            /\ Advance
            /\ UNCHANGED <<k, faults>>
       ELSE SaveFailed(o)
  /\ UNCHANGED <<elsewhere, inputs, other, exit_code, prior, detAns, run, images, image_hash, assoc, detections,
                 store_at_start>>

\* process_all_images after the loop (the "Processing complete" lines), or its
\* "No images found" line; then main: get_detection_summary, close, return 0
FinishRun ==
  /\ pc = "summary"
  /\ log' = Append(log, IF images = <<>>
                        THEN Line("no_images", "", 0)
                        ELSE Line("complete", "", processed_count))
  /\ txn' = "closed"
  /\ pending' = <<>>
  /\ pc' = "idle"
  /\ exit_code' = Some(0)
  /\ UNCHANGED <<elsewhere, inputs, other, prior, detAns, store, run, images, idx, locals, counters,
                 store_at_start, faults>>

Next ==
  \/ StartRun
  \/ StartRunFails
  \/ Hash
  \/ Dedup
  \/ Correlate
  \/ DetectOk
  \/ DetectRaises
  \/ Insert
  \/ Commit
  \/ FinishRun

Spec == Init /\ [][Next]_vars

\* One image of one run, from the call of get_message_id_for_image on: main()
\* has started, the image was hashed and the dedup gate found nothing.
CorrInit ==
  /\ root_exists = TRUE
  /\ corpus \in {<<f>> : f \in CorrelatedFiles}
  /\ messages \in CorrelatedMessages
  /\ detAns = [c \in Contents |-> DetectorAnswers(c)]
  /\ store = <<>>
  /\ pending = <<>>
  /\ txn = "intrans"
  /\ run = MaxRuns
  /\ pc = "correlate"
  /\ images = corpus
  /\ idx = 1
  /\ image_hash = Md5(corpus[1].data)
  /\ assoc = NoAssoc
  /\ detections = <<>>
  /\ k = 0
  /\ processed_count = 0
  /\ total_detections = 0
  /\ store_at_start = <<>>
  /\ faults = 0
  /\ log = <<>>
  /\ prior = [empty |-> {}, failed |-> {}]
  /\ exit_code = None
  /\ other = NoOther
  /\ ElsewhereIdle

CorrNext ==
  \/ Correlate
  \/ DetectOk
  \/ DetectRaises
  \/ Insert
  \/ Commit
  \/ FinishRun

SpecCorr == CorrInit /\ [][CorrNext]_vars

\* main() about to run over any tree of entries, after as many starts as
\* failures can be injected have failed
FindInit ==
  /\ root_exists = TRUE
  /\ corpus \in Trees
  /\ messages = {}
  /\ detAns = [c \in Contents |-> DetectorAnswers(c)]
  /\ store = <<>>
  /\ pending = <<>>
  /\ txn = "closed"
  /\ run = MaxRuns - 1
  /\ pc = "idle"
  /\ images = <<>>
  /\ idx = 0
  /\ image_hash = ""
  /\ assoc = NoAssoc
  /\ detections = <<>>
  /\ k = 0
  /\ processed_count = 0
  /\ total_detections = 0
  /\ store_at_start = <<>>
  /\ faults = MaxFaults
  /\ log = <<Line("processing_failed", "", 0)>>
  /\ prior = [empty |-> {}, failed |-> {}]
  /\ exit_code = Some(1)
  /\ other = NoOther
  /\ ElsewhereIdle

FindNext ==
  \/ StartRun
  \/ Hash
  \/ Dedup
  \/ Correlate
  \/ DetectOk
  \/ Insert
  \/ Commit
  \/ FinishRun

SpecFind == FindInit /\ [][FindNext]_vars

\* A second execution of main() on the same database, over a corpus of its own
\* that holds one file with the bytes of a file of this corpus. Its path has no
\* known channel, so its correlation sends no statement; its connection is its
\* own and reads what is committed; its inserts are invisible to others until
\* its commit, so its save is one step.
OtherFile ==
  [dirs |-> <<"misc">>, stem |-> <<"a">>, ext |-> <<".", "j", "p", "g">>,
   kind |-> "file", data |-> "bytesA"]

\* the other execution: is_image_processed on the hash of its file
OtherDedup ==
  /\ other.pc = "ready"
  /\ other' = [other EXCEPT !.pc = IF Md5(OtherFile.data) \in Ledger(store)
                                    THEN "done" ELSE "detect"]
  /\ UNCHANGED <<elsewhere, inputs, detAns, store, pending, txn, run, pc, images, idx, locals,
                 counters, store_at_start, faults, log, prior, exit_code>>

\* the other execution: the detector call and the detection list
OtherDetect ==
  /\ other.pc = "detect"
  /\ \E ans \in AnswersFor(OtherFile.data) :
       /\ detAns' = [detAns EXCEPT ![OtherFile.data] = {ans}]
       /\ other' = [pc |-> IF ans = <<>> THEN "done" ELSE "save",
                    rows |-> [i \in 1..Len(ans) |->
                               Detection(OtherFile, Md5(OtherFile.data), NoAssoc, ans[i])],
                    inferred |-> TRUE]
  /\ UNCHANGED <<elsewhere, inputs, store, pending, txn, run, pc, images, idx, locals,
                 counters, store_at_start, faults, log, prior, exit_code>>

\* the other execution: save_detections, inserts and commit
OtherSave ==
  /\ other.pc = "save"
  /\ store' = store \o other.rows
  /\ other' = [other EXCEPT !.pc = "done"]
  /\ UNCHANGED <<elsewhere, inputs, detAns, pending, txn, run, pc, images, idx, locals,
                 counters, store_at_start, faults, log, prior, exit_code>>

ConcInit ==
  /\ root_exists = TRUE
  /\ corpus \in Corpora
  /\ messages \in SUBSET MessageUniverse
  /\ detAns = [c \in Contents |-> DetectorAnswers(c)]
  /\ store = <<>>
  /\ pending = <<>>
  /\ txn = "closed"
  /\ run = 0
  /\ pc = "idle"
  /\ images = <<>>
  /\ idx = 0
  /\ image_hash = ""
  /\ assoc = NoAssoc
  /\ detections = <<>>
  /\ k = 0
  /\ processed_count = 0
  /\ total_detections = 0
  /\ store_at_start = <<>>
  /\ faults = 0
  /\ log = <<>>
  /\ prior = [empty |-> {}, failed |-> {}]
  /\ exit_code = None
  /\ other = [pc |-> "ready", rows |-> <<>>, inferred |-> FALSE]
  /\ ElsewhereIdle

ConcNext ==
  \/ Next
  \/ OtherDedup
  \/ OtherDetect
  \/ OtherSave

SpecConc == ConcInit /\ [][ConcNext]_vars

\* the uncommitted inserts surviving the end of the process
StopKeepsInserts ==
  /\ pc # "idle"
  /\ pc' = "idle"
  /\ txn' = "closed"
  /\ store' = store \o pending
  /\ pending' = <<>>
  /\ exit_code' = Some(0 - 9)
  /\ UNCHANGED <<elsewhere, inputs, other, prior, detAns, run, images, idx, locals, counters,
                 store_at_start, faults, log>>

\* The script stopped from outside at any point of a run: subprocess.run kills
\* its child when the timeout expires, and a cancelled run ends the same way.
\* The process takes no further step, its return code is that of the signal,
\* and the server rolls back the transaction of the connection that went away.
Stop ==
  /\ pc # "idle"
  /\ pc' = "idle"
  /\ txn' = "closed"
  /\ pending' = <<>>
  /\ exit_code' = Some(0 - 9)
  /\ UNCHANGED <<elsewhere, inputs, other, prior, detAns, store, run, images, idx, locals,
                 counters, store_at_start, faults, log>>

StopNext ==
  \/ Next
  \/ Stop

\* main() about to run over any corpus, every message of the universe loaded
StopInit ==
  /\ root_exists = TRUE
  /\ corpus \in Corpora
  /\ messages = MessageUniverse
  /\ detAns = [c \in Contents |-> DetectorAnswers(c)]
  /\ store = <<>>
  /\ pending = <<>>
  /\ txn = "closed"
  /\ run = 0
  /\ pc = "idle"
  /\ images = <<>>
  /\ idx = 0
  /\ image_hash = ""
  /\ assoc = NoAssoc
  /\ detections = <<>>
  /\ k = 0
  /\ processed_count = 0
  /\ total_detections = 0
  /\ store_at_start = <<>>
  /\ faults = 0
  /\ log = <<>>
  /\ prior = [empty |-> {}, failed |-> {}]
  /\ exit_code = None
  /\ other = NoOther
  /\ ElsewhereIdle

SpecStop == StopInit /\ [][StopNext]_vars

\* ------------------------------------------------------ get_detection_summary
\* LIMIT 10 of the "most detected objects" query
TOP_LIMIT == 10

\* The rows get_detection_summary reads, as what its three queries depend on:
\* how many rows each class has, and the channel of the rows of a class. Class
\* i has i rows, up to MaxTies classes one more, so that counts differ and also
\* tie; the channels go round None and two known channels, starting at any of
\* the three.
ChannelList == <<None, Some("tikvahpharma"), Some("lobelia4cosmetics")>>
Tables ==
  {[counts |-> [i \in 1..n |-> IF i \in more THEN i + 1 ELSE i], shift |-> sh] :
     n \in 0..MaxClasses,
     more \in {m \in SUBSET (1..MaxClasses) : Cardinality(m) <= MaxTies},
     sh \in 0..2}
ChannelOf(T, class) == ChannelList[((class + T.shift) % 3) + 1]

RECURSIVE SumSeq(_)
SumSeq(s) == IF s = <<>> THEN 0 ELSE Head(s) + SumSeq(Tail(s))

\* SELECT COUNT(*) FROM raw.image_detections
CountAll(T) == SumSeq(T.counts)

\* GROUP BY detected_object_class, COUNT(*)
ClassGroups(T) == {[key |-> i, count |-> T.counts[i]] : i \in 1..Len(T.counts)}

\* WHERE channel_name IS NOT NULL GROUP BY channel_name, COUNT(*)
ChannelGroups(T) ==
  LET named == {i \in 1..Len(T.counts) : ChannelOf(T, i) # None}
      channels == {ChannelOf(T, i)[1] : i \in named}
  IN {[key |-> ch,
       count |-> SumSeq([i \in 1..Len(T.counts) |->
                          IF ChannelOf(T, i) = Some(ch) THEN T.counts[i] ELSE 0])] :
        ch \in channels}

\* the groups an ascending ORDER BY would put first
MinGroups(G) == {g \in G : \A h \in G : g.count <= h.count}

\* ORDER BY count DESC: the groups that may come first
MaxGroups(G) == {g \in G : \A h \in G : g.count >= h.count}

\* ORDER BY count DESC: every order the server may return, groups of equal
\* count coming in any order
RECURSIVE Orderings(_)
Orderings(G) ==
  IF G = {} THEN {<<>>}
  ELSE UNION {{<<g>> \o rest : rest \in Orderings(G \ {g})} : g \in MaxGroups(G)}

\* LIMIT n
Limit(rows, n) == SubSeq(rows, 1, IF Len(rows) < n THEN Len(rows) ELSE n)

\* get_detection_summary, the three queries and the lines logged from them
Summarize ==
  /\ summary.status = "none"
  /\ \E top \in Orderings(ClassGroups(table)), chans \in Orderings(ChannelGroups(table)) :
       summary' = [status |-> "done", total |-> CountAll(table),
                   top_objects |-> Limit(top, TOP_LIMIT), by_channel |-> chans]
  /\ UNCHANGED <<pipeline, table, loading, api, quality>>

\* get_detection_summary, except clause: a query raised, the failure is logged
\* and no figure is
SummarizeFails ==
  /\ summary.status = "none"
  /\ summary' = [NoSummary EXCEPT !.status = "failed"]
  /\ UNCHANGED <<pipeline, table, loading, api, quality>>

SumInit ==
  /\ PipelineIdle
  /\ table \in Tables
  /\ summary = NoSummary
  /\ LoadIdle
  /\ ApiIdle
  /\ QualityIdle

SumNext ==
  \/ Summarize
  \/ SummarizeFails

SpecSum == SumInit /\ [][SumNext]_vars

\* ------------------------------------------------------- load_raw_messages
MaxMsgs  == 2   \* messages in the JSON files
MaxLoads == 2   \* executions of load_raw_messages

\* The messages of the JSON files, by the columns the programs read: id and
\* channel (the key a message is known by), date and views (what
\* telegram_data_quality counts); channel, date and views may be null.
JsonMessages ==
  [id : 1..2, channel : {None, Some("tikvahpharma")}, date : {None, Some(1)},
   views : {None, Some(7)}]

\* load_files: the messages of every *.json file, in glob order
FileContents == SeqsUpTo(JsonMessages, MaxMsgs)

\* __main__ up to insert_messages: connect, CREATE TABLE IF NOT EXISTS (the
\* rows of an existing table stay), load_files
LoadStart ==
  /\ loader.pc = "idle"
  /\ loader.runs < MaxLoads
  /\ loader' = [loader EXCEPT !.pc = "insert", !.k = 1, !.pending = <<>>,
                              !.runs = @ + 1]
  /\ UNCHANGED <<pipeline, table, summary, files, loaded, telegram_quality, api, quality>>

\* insert_messages, one INSERT: a plain INSERT INTO ... VALUES, the table has
\* no key and the statement no ON CONFLICT, so the row is always added
LoadInsert ==
  /\ loader.pc = "insert"
  /\ loader.k <= Len(files)
  /\ loader' = [loader EXCEPT !.pending = Append(@, files[loader.k]), !.k = @ + 1]
  /\ UNCHANGED <<pipeline, table, summary, files, loaded, telegram_quality, api, quality>>

\* insert_messages, an INSERT raises: nothing catches it, the process ends
\* and the server drops the uncommitted rows
LoadInsertFails ==
  /\ loader.pc = "insert"
  /\ loader.k <= Len(files)
  /\ loader.failed < MaxFaults
  /\ loader' = [loader EXCEPT !.pc = "idle", !.pending = <<>>, !.k = 0,
                              !.failed = @ + 1]
  /\ UNCHANGED <<pipeline, table, summary, files, loaded, telegram_quality, api, quality>>

\* insert_messages, conn.commit() after the last INSERT, then conn.close()
LoadCommit ==
  /\ loader.pc = "insert"
  /\ loader.k > Len(files)
  /\ loaded' = loaded \o loader.pending
  /\ loader' = [loader EXCEPT !.pc = "idle", !.pending = <<>>, !.k = 0,
                              !.done = @ + 1,
                              !.after_first = IF loader.done = 0 THEN loaded' ELSE @]
  /\ UNCHANGED <<pipeline, table, summary, files, telegram_quality, api, quality>>

\* ---------------------------------------------------- telegram_data_quality
\* SELECT COUNT(*) - COUNT(DISTINCT id)
Duplicates(rows) == Len(rows) - Cardinality({rows[i].id : i \in 1..Len(rows)})

\* SELECT COUNT(*) ... WHERE channel IS NULL, ... WHERE date IS NULL
NullChannels(rows) == Cardinality({i \in 1..Len(rows) : rows[i].channel = None})
NullDates(rows) == Cardinality({i \in 1..Len(rows) : rows[i].date = None})

\* AVG(views) ... WHERE views IS NOT NULL: NULL when no row has views
AvgViewsIsNull(rows) == \A i \in 1..Len(rows) : rows[i].views = None

\* max(0, 100 - (issues * 10))
TelegramScore(issues) == IF 100 - (issues * 10) > 0 THEN 100 - (issues * 10) ELSE 0

\* telegram_data_quality with every query answered: f"Avg: {avg_views:.0f}"
\* raises on a NULL average, the except clause returns status "error" and no
\* score; else the score is returned with the three counts
TelegramDataQuality ==
  /\ telegram_quality' =
       IF AvgViewsIsNull(loaded)
       THEN [NoTelegramQuality EXCEPT !.status = "error", !.cause = "format"]
       ELSE [status |-> "completed", cause |-> "none",
             quality_score |->
               TelegramScore(Duplicates(loaded) + NullChannels(loaded) + NullDates(loaded)),
             duplicates |-> Duplicates(loaded),
             null_channels |-> NullChannels(loaded),
             null_dates |-> NullDates(loaded)]
  /\ UNCHANGED <<pipeline, table, summary, files, loaded, loader, api, quality>>

\* telegram_data_quality, a query or the connection fails: the except clause
TelegramDataQualityFails ==
  /\ telegram_quality' = [NoTelegramQuality EXCEPT !.status = "error", !.cause = "query"]
  /\ UNCHANGED <<pipeline, table, summary, files, loaded, loader, api, quality>>

LoadInit ==
  /\ PipelineIdle
  /\ SummaryIdle
  /\ files \in FileContents
  /\ loaded = <<>>
  /\ loader = NoLoader
  /\ telegram_quality = NoTelegramQuality
  /\ ApiIdle
  /\ QualityIdle

LoadNext ==
  \/ LoadStart
  \/ LoadInsert
  \/ LoadInsertFails
  \/ LoadCommit
  \/ TelegramDataQuality
  \/ TelegramDataQualityFails

SpecLoad == LoadInit /\ [][LoadNext]_vars

\* ----------------------------------------------------------- DatabaseManager
MaxRequests == 4   \* requests the API serves

\* get_connection: connects when there is no connection or it is closed,
\* else hands out the one it has, whatever its transaction state
GetConnection(c) == IF c \in {"none", "closed"} THEN "idle" ELSE c

\* execute_query / execute_single_query on the connection get_connection
\* returned: cursor.execute opens a transaction if none is open (the
\* connection is not autocommit) and nothing commits or rolls back, so a
\* statement that fails leaves the transaction failed, and in a failed
\* transaction the server refuses every statement. A lost server marks the
\* connection closed; a refused connect leaves none.
Served(c, method, stmt, lost) ==
  IF lost
  THEN [connection |-> IF c \in {"none", "closed"} THEN c ELSE "closed",
        answer |-> [method |-> method, stmt |-> stmt, result |-> "raised",
                    cause |-> "lost"]]
  ELSE IF GetConnection(c) = "aborted"
  THEN [connection |-> "aborted",
        answer |-> [method |-> method, stmt |-> stmt, result |-> "raised",
                    cause |-> "aborted"]]
  ELSE IF stmt = "invalid"
  THEN [connection |-> "aborted",
        answer |-> [method |-> method, stmt |-> stmt, result |-> "raised",
                    cause |-> "statement"]]
  ELSE [connection |-> "intrans",
        answer |-> [method |-> method, stmt |-> stmt, result |-> "ok",
                    cause |-> "none"]]

\* DatabaseManager.execute_query, called by the endpoints through crud
ExecuteQuery ==
  /\ Len(answers) < MaxRequests
  /\ \E stmt \in {"valid", "invalid"}, lost \in BOOLEAN :
       LET r == Served(connection, "execute_query", stmt, lost)
       IN /\ connection' = r.connection
          /\ answers' = Append(answers, r.answer)
  /\ UNCHANGED <<pipeline, table, summary, loading, quality>>

\* DatabaseManager.execute_single_query
ExecuteSingleQuery ==
  /\ Len(answers) < MaxRequests
  /\ \E stmt \in {"valid", "invalid"}, lost \in BOOLEAN :
       LET r == Served(connection, "execute_single_query", stmt, lost)
       IN /\ connection' = r.connection
          /\ answers' = Append(answers, r.answer)
  /\ UNCHANGED <<pipeline, table, summary, loading, quality>>

\* GET /health: execute_query("SELECT 1"); healthy if it returns, 500 if it
\* raises
HealthCheck ==
  /\ Len(answers) < MaxRequests
  /\ \E lost \in BOOLEAN :
       LET r == Served(connection, "health_check", "valid", lost)
       IN /\ connection' = r.connection
          /\ answers' = Append(answers, r.answer)
  /\ UNCHANGED <<pipeline, table, summary, loading, quality>>

ApiInit ==
  /\ PipelineIdle
  /\ ElsewhereIdle

ApiNext ==
  \/ ExecuteQuery
  \/ ExecuteSingleQuery
  \/ HealthCheck

SpecApi == ApiInit /\ [][ApiNext]_vars

\* --------------------------------------------------------- yolo_data_quality
MaxRows == 2   \* rows of analytics.fct_image_detections

\* the bucket limits of the confidence distribution query, in hundredths
HIGH_CONFIDENCE   == 80
MEDIUM_CONFIDENCE == 50

\* The analytics rows yolo_data_quality reads. A detection, by the columns of
\* its queries: confidence_score (NOT NULL in raw.image_detections, here the
\* values on either side of both bucket limits), message_id (null or not) and
\* detection_score (non-negative, possibly above 1), scores in hundredths.
\* fct_messages by its message_id column; a message may be there twice.
FctDetections ==
  [confidence_score : {MEDIUM_CONFIDENCE - 1, MEDIUM_CONFIDENCE,
                       HIGH_CONFIDENCE - 1, HIGH_CONFIDENCE},
   message_id : {None, Some(1), Some(2)},
   detection_score : {0, 60, 150}]
FctTables ==
  [detections : SeqsUpTo(FctDetections, MaxRows), messages : {<<>>, <<1>>, <<1, 1>>}]

\* COUNT(CASE WHEN confidence_score >= 0.8 THEN 1 END)
InHigh(r) == r.confidence_score >= HIGH_CONFIDENCE

\* the medium bucket without its lower limit
MediumExclusive(r) ==
  r.confidence_score > MEDIUM_CONFIDENCE /\ r.confidence_score < HIGH_CONFIDENCE

\* COUNT(CASE WHEN confidence_score >= 0.5 AND confidence_score < 0.8 THEN 1 END)
InMedium(r) ==
  r.confidence_score >= MEDIUM_CONFIDENCE /\ r.confidence_score < HIGH_CONFIDENCE

\* COUNT(CASE WHEN confidence_score < 0.5 THEN 1 END)
InLow(r) == r.confidence_score < MEDIUM_CONFIDENCE

HighCount(F) == Cardinality({i \in 1..Len(F.detections) : InHigh(F.detections[i])})
MediumCount(F) == Cardinality({i \in 1..Len(F.detections) : InMedium(F.detections[i])})
LowCount(F) == Cardinality({i \in 1..Len(F.detections) : InLow(F.detections[i])})

\* fct_image_detections fid LEFT JOIN fct_messages fm ON fid.message_id =
\* fm.message_id: a detection with every message that matches it, or once
\* with no message (0) when none does; a null message_id matches none
LeftJoin(F) ==
  UNION {LET match == {j \in 1..Len(F.messages) :
                         F.detections[i].message_id = Some(F.messages[j])}
         IN IF match = {} THEN {<<i, 0>>} ELSE {<<i, j>> : j \in match} :
         i \in 1..Len(F.detections)}

\* SELECT COUNT(*) ... WHERE fm.message_id IS NULL
OrphanedCount(F) == Cardinality({p \in LeftJoin(F) : p[2] = 0})

\* x / total_detections if total_detections > 0 else 0, as a fraction
Ratio(x, total) ==
  IF total > 0 THEN [num |-> x, den |-> total] ELSE [num |-> 0, den |-> 1]

\* min(AVG(detection_score) or 0, 1.0), as a fraction: the average of no row
\* is NULL and taken as 0
CappedAvgScore(F) ==
  LET n == Len(F.detections)
      sum == SumSeq([i \in 1..n |-> F.detections[i].detection_score])
  IN IF n = 0 THEN [num |-> 0, den |-> 1]
     ELSE [num |-> IF sum < 100 * n THEN sum ELSE 100 * n, den |-> 100 * n]

\* int(): the quotient n / d cut towards zero
Trunc(n, d) == IF n >= 0 THEN n \div d ELSE 0 - ((0 - n) \div d)

\* int(high_conf_ratio * 50 + (1 - orphaned_ratio) * 30 + min(avg, 1.0) * 20)
YoloScore(high, orphaned, avg) ==
  Trunc(((high.num * 50 * orphaned.den) + ((orphaned.den - orphaned.num) * 30 * high.den))
          * avg.den
        + (avg.num * 20 * high.den * orphaned.den),
        high.den * orphaned.den * avg.den)

\* yolo_data_quality with every query answered
YoloDataQuality ==
  /\ yolo_quality.status = "none"
  /\ LET high == HighCount(fct)
         medium == MediumCount(fct)
         low == LowCount(fct)
         orphaned == OrphanedCount(fct)
         total == high + medium + low
     IN yolo_quality' =
          [status |-> "completed", high |-> high, medium |-> medium, low |-> low,
           orphaned_detections |-> orphaned, total_detections |-> total,
           high_conf_ratio |-> Ratio(high, total),
           orphaned_ratio |-> Ratio(orphaned, total),
           quality_score |-> YoloScore(Ratio(high, total), Ratio(orphaned, total),
                                       CappedAvgScore(fct))]
  /\ UNCHANGED <<pipeline, table, summary, loading, api, fct>>

\* yolo_data_quality, a query or the connection fails: the except clause
YoloDataQualityFails ==
  /\ yolo_quality.status = "none"
  /\ yolo_quality' = [status |-> "error"]
  /\ UNCHANGED <<pipeline, table, summary, loading, api, fct>>

QualityInit ==
  /\ PipelineIdle
  /\ SummaryIdle
  /\ LoadIdle
  /\ ApiIdle
  /\ fct \in FctTables
  /\ yolo_quality = NoYoloQuality

QualityNext ==
  \/ YoloDataQuality
  \/ YoloDataQualityFails

SpecQuality == QualityInit /\ [][QualityNext]_vars





TypeOK ==
  /\ pc \in {"idle", "hash", "dedup", "correlate", "detect", "insert", "commit", "summary"}
  /\ txn \in {"closed", "idle", "intrans", "aborted", "broken"}
  /\ run \in 0..MaxRuns
  /\ faults \in 0..MaxFaults

\* ------------------------------------------------------------------- claims
\* the logged lines of the i-th image of the running (or last) run
LinesOf(i) == {log[j] : j \in {n \in 1..Len(log) : log[n].idx = i}}

\* the lines process_image writes once the detector has been called
DetectorLines == {"found", "found_none", "inference_failed"}

\* the run has left the loop of process_all_images
LoopOver == run >= 1 /\ pc \in {"summary", "idle"}

\* the i-th image has been dealt with by the loop
Handled(i) == LoopOver \/ (run >= 1 /\ i < idx)

Skipped(i) == \E l \in LinesOf(i) : l.ev = "skipped"

\* C1: Idempotence. When main() has run a second time over the unchanged
\* corpus, with no failure injected anywhere, the committed rows are those the
\* second run started from, its processed count is 0, and every readable image
\* was skipped by the dedup gate.
C1_Idempotence ==
  (pc = "idle" /\ run >= 2 /\ faults = 0) =>
    /\ store = store_at_start
    /\ processed_count = 0
    /\ \A i \in 1..Len(images) : images[i].data # NoData => Skipped(i)

\* the paths that have a committed row
StoredPaths == {store[i].image_path : i \in 1..Len(store)}

\* C2: Content-identity dedup. Of two files with identical bytes and different
\* paths, committed rows exist for at most one, and the later one, once the
\* loop has dealt with it, was skipped.
C2_ContentDedup ==
  \A i, j \in 1..Len(images) :
    (i < j /\ images[i].data = images[j].data /\ images[i].data # NoData) =>
      /\ ~({PathOf(images[i]), PathOf(images[j])} \subseteq StoredPaths)
      /\ (faults = 0 /\ Handled(j)) => Skipped(j)

\* C3: The dedup gate comes before the detector. The detector is never called
\* with an image whose hash has a committed row, whatever way the dedup query
\* ended.
C3_GateBeforeDetector ==
  \A n \in 1..Len(log) : log[n].ev \in DetectorLines => ~log[n].marked

\* the committed rows of one path, in insertion order
RowsOf(path) == SelectSeq(store, LAMBDA r : r.image_path = path)

\* rows are the complete result of one inference call on file f: all the boxes
\* the detector answers for its content
CompleteResult(f, rows) ==
  \E ans \in detAns[f.data] :
    /\ Len(rows) = Len(ans)
    /\ \A i \in 1..Len(ans) :
         rows[i] = Detection(f, Md5(f.data),
                             [message_id |-> rows[1].message_id,
                              channel_name |-> rows[1].channel_name], ans[i])

\* C4: save_detections is atomic per image. In every state the committed rows
\* of an image are none or all the detections of one inference call on it, and
\* no uncommitted insert is left behind once save_detections has returned.
C4_SaveAtomic ==
  /\ pc \notin {"insert", "commit"} => pending = <<>>
  /\ \A i \in 1..Len(corpus) :
       \/ RowsOf(PathOf(corpus[i])) = <<>>
       \/ /\ corpus[i].data # NoData
          /\ CompleteResult(corpus[i], RowsOf(PathOf(corpus[i])))

\* a save failed on its second insert or later (or on the commit after two
\* inserts) and the image has no committed row
C4_Witness ==
  \E n \in 1..Len(log) :
    /\ log[n].ev = "save_failed"
    /\ log[n].n >= 2
    /\ PathOf(images[log[n].idx]) \notin StoredPaths
    /\ pending = <<>>

\* C5: a zero-detection image is recorded as processed. The detector is never
\* called on a hash for which an earlier run logged a successful inference
\* with zero detections.
C5_EmptyImageMarked ==
  \A n \in 1..Len(log) :
    log[n].ev \in DetectorLines => log[n].hash \notin prior.empty

\* C6: a failed save is not counted. When the loop of a run is over, the
\* processed count is the number of images whose rows the run committed and the
\* detection total is the number of rows the run committed.
C6_TotalsMatchCommits ==
  LoopOver =>
    /\ processed_count = Cardinality({n \in 1..Len(log) : log[n].ev = "saved"})
    /\ total_detections = Len(store) - Len(store_at_start)

\* the lines that report a failed inference or a failed save
FailureLines == {"inference_failed", "save_failed"}

\* the rows the running (or last) run has committed
NewRows == SubSeq(store, Len(store_at_start) + 1, Len(store))

\* C7: a failed attempt leaves the hash unmarked. An image with a logged
\* inference or save failure got no row from this run; if its hash had no
\* committed row at the failure it has one later only through a save logged
\* after it (another file of the same content); and no image is skipped while
\* its hash has no committed row, so an image whose hash failed in an earlier
\* run and is still unmarked goes to the detector again.
C7_FailureLeavesUnmarked ==
  /\ \A n \in 1..Len(log) :
       log[n].ev \in FailureLines =>
         /\ \A r \in 1..Len(NewRows) :
              NewRows[r].image_path # PathOf(images[log[n].idx])
         /\ (~log[n].marked /\ log[n].hash \in Ledger(store)) =>
              \E m \in (n + 1)..Len(log) :
                log[m].ev = "saved" /\ log[m].hash = log[n].hash
  /\ \A n \in 1..Len(log) : log[n].ev = "skipped" => log[n].marked
  /\ \A i \in 1..Len(images) :
       (Handled(i) /\ images[i].data # NoData
          /\ Md5(images[i].data) \in prior.failed /\ ~Skipped(i)) =>
         \E l \in LinesOf(i) : l.ev \in DetectorLines

\* an image whose hash failed in an earlier run, still without a committed
\* row, is handed to the detector again
C7_Witness ==
  \E n \in 1..Len(log) :
    /\ log[n].ev \in DetectorLines
    /\ log[n].hash \in prior.failed
    /\ ~log[n].marked

\* the lines of which process_image writes exactly one per call
ProcessImageLines ==
  {"hash_failed", "skipped", "found", "found_none", "inference_failed"}

Attempts == SelectSeq(log, LAMBDA l : l.ev \in ProcessImageLines)

\* how far a run has got: the images before the current one, then the steps
\* taken on the current one
StepsPerImage == MaxDet + 6

StepRank ==
  CASE pc = "hash" -> 0
    [] pc = "dedup" -> 1
    [] pc = "correlate" -> 2
    [] pc = "detect" -> 3
    [] pc = "insert" -> 3 + k
    [] pc = "commit" -> 4 + MaxDet
    [] OTHER -> 0

RunMeasure ==
  IF pc \in {"summary", "idle"} THEN (Len(images) + 1) * StepsPerImage
  ELSE idx * StepsPerImage + StepRank

\* the state part of C8
BulkheadInvariant ==
  /\ \A n \in 1..Len(Attempts) : Attempts[n].idx = n
  /\ (run >= 1 /\ ~LoopOver) => Len(Attempts) \in {idx - 1, idx}
  /\ LoopOver => Len(Attempts) = Len(images)
  /\ (run >= 1 /\ pc = "idle" /\ images # <<>>) => log[Len(log)].ev = "complete"
  /\ pc # "idle" => ENABLED Next
  /\ RunMeasure <= (Len(images) + 1) * StepsPerImage

\* C8: bulkhead isolation. The n-th call of process_image in a run is for the
\* n-th discovered image, whatever failed before; inside the loop every image
\* before the current one has had its call; the loop is left only when every
\* image has had exactly one; and the run terminates with its summary line: a
\* running main() can always take a step, and each step takes it strictly
\* further through a bounded number of positions.
C8_Bulkhead ==
  /\ []BulkheadInvariant
  /\ [][(pc # "idle" /\ pc' # "idle") => RunMeasure' > RunMeasure]_vars

\* a run over two images has ended although the save of its first image
\* failed on a lost connection and rollback() raised
C8_Witness ==
  /\ run >= 1 /\ pc = "idle"
  /\ Len(images) >= 2
  /\ \E n \in 1..Len(log) : log[n].ev = "error_processing" /\ log[n].idx = 1
  /\ Len(Attempts) = Len(images)

\* a non-null message id comes with a non-null channel, and the pair is a row
\* of raw.telegram_messages
AssociationOk(a) ==
  a.message_id # None =>
    /\ a.channel_name # None
    /\ <<a.message_id[1], a.channel_name[1]>> \in messages

\* C9: association invariant, for the pair process_image holds and for every
\* detection built, inserted or committed.
C9_AssociationVerified ==
  /\ AssociationOk(assoc)
  /\ \A i \in 1..Len(detections) : AssociationOk(detections[i])
  /\ \A i \in 1..Len(pending) : AssociationOk(pending[i])
  /\ \A i \in 1..Len(store) : AssociationOk(store[i])

\* a committed row carries a message id
C9_Witness ==
  \E i \in 1..Len(store) : store[i].message_id # None

\* the first component of parts that is a known channel, if any
FirstKnown(parts) ==
  LET hits == {i \in 1..Len(parts) : parts[i] \in KnownChannels}
  IN IF hits = {} THEN None
     ELSE Some(parts[CHOOSE i \in hits : \A j \in hits : i <= j])

\* C10: the channel survives every way the message id is not accepted. Once
\* correlation has returned, a path with a known-channel component has that
\* first component as its channel.
C10_ChannelKept ==
  (pc \in {"detect", "insert", "commit"} /\ FirstKnown(PathParts(images[idx])) # None) =>
    assoc.channel_name = FirstKnown(PathParts(images[idx]))

\* the components of a stored path: those of IMAGES_DIR, then its directories
PartsOfPath(path) == ImagesDir \o path[1]

\* every detection dict and every inserted or committed row
AllRows ==
  {detections[i] : i \in 1..Len(detections)}
    \cup {pending[i] : i \in 1..Len(pending)}
    \cup {store[i] : i \in 1..Len(store)}

HasDigit(stem) == \E i \in 1..Len(stem) : stem[i] \in Digits

\* C11: no known channel in the path. get_message_id_for_image then returns
\* (None, None) and sends no statement, so nothing can fail or be logged in
\* that step, whatever digits the stem holds; and every detection built,
\* inserted or committed for such a path has channel and message id None.
C11_NoChannelShortCircuit ==
  /\ [][(pc = "correlate" /\ FirstKnown(PathParts(images[idx])) = None) =>
          (assoc' = NoAssoc /\ txn' = txn /\ faults' = faults /\ log' = log)]_vars
  /\ [](\A r \in AllRows :
          FirstKnown(PartsOfPath(r.image_path)) = None =>
            (r.channel_name = None /\ r.message_id = None))

\* rows are committed for a file outside every known channel whose stem holds
\* a digit
C11_Witness ==
  \E i \in 1..Len(store) :
    /\ FirstKnown(PartsOfPath(store[i].image_path)) = None
    /\ HasDigit(store[i].image_path[2])
    /\ store[i].channel_name = None
    /\ store[i].message_id = None

\* the pairs get_message_id_for_image may return
IsPair(a) ==
  /\ a.channel_name \in {None} \cup {Some(c) : c \in KnownChannels}
  /\ a.message_id = None \/ (Len(a.message_id) = 1 /\ a.message_id[1] \in Nat)
  /\ a.message_id # None => a.channel_name # None

\* C12: correlation never fails hard. Whenever process_image is at the call of
\* get_message_id_for_image the call can return; it returns a pair whatever the
\* SELECT did, (None, None) when the SELECT failed; the same image goes on to
\* the detector; and the detections built carry that pair.
C12_CorrelationNeverFails ==
  /\ [](pc = "correlate" => ENABLED Correlate)
  /\ [][pc = "correlate" =>
          /\ pc' = "detect" /\ idx' = idx
          /\ IsPair(assoc')
          /\ (log' # log => assoc' = NoAssoc)]_vars
  /\ [](\A i \in 1..Len(detections) :
          /\ detections[i].message_id = assoc.message_id
          /\ detections[i].channel_name = assoc.channel_name)

\* the lookup failed and the detector was still called on the image
C12_Witness ==
  \E n, m \in 1..Len(log) :
    /\ n < m
    /\ log[n].ev = "correlate_failed"
    /\ log[m].ev \in {"found", "found_none"}
    /\ log[m].idx = log[n].idx
    /\ assoc = NoAssoc

\* the maximal runs of digits of a stem, as (first, last) positions
DigitRuns(stem) ==
  {r \in (1..Len(stem)) \X (1..Len(stem)) :
     /\ r[1] <= r[2]
     /\ \A i \in r[1]..r[2] : stem[i] \in Digits
     /\ (r[1] > 1 => stem[r[1] - 1] \notin Digits)
     /\ (r[2] < Len(stem) => stem[r[2] + 1] \notin Digits)}

LeftmostRun(stem) ==
  CHOOSE r \in DigitRuns(stem) : \A q \in DigitRuns(stem) : r[1] <= q[1]

RunValue(stem, r) == ToInt(SubSeq(stem, r[1], r[2]))

\* the lookup of the current image completed
LookupCompleted ==
  \A n \in 1..Len(log) : log[n].ev # "correlate_failed"

\* C13: the candidate is the leftmost run of digits of the stem. After a
\* completed lookup under a known channel the message id is that run's value
\* if the message store holds it under the channel, and None otherwise, later
\* runs not being tried.
C13_FirstRunOnly ==
  LET f == images[idx]
      channel == FirstKnown(PathParts(f))
  IN (pc = "detect" /\ channel # None /\ HasDigit(f.stem) /\ LookupCompleted) =>
       LET v == RunValue(f.stem, LeftmostRun(f.stem))
       IN /\ assoc.channel_name = channel
          /\ assoc.message_id =
               IF <<v, channel[1]>> \in messages THEN Some(v) ELSE None

\* the leftmost run does not verify, a later run would, and the id is None
C13_Witness ==
  LET f == images[idx]
      channel == FirstKnown(PathParts(f))
  IN /\ pc = "detect" /\ channel # None /\ HasDigit(f.stem) /\ LookupCompleted
     /\ <<RunValue(f.stem, LeftmostRun(f.stem)), channel[1]>> \notin messages
     /\ \E r \in DigitRuns(f.stem) : <<RunValue(f.stem, r), channel[1]>> \in messages
     /\ assoc.message_id = None

\* C14: Confidence floor. Every committed row has a confidence score of at
\* least the threshold the detector was called with.
C14_ConfidenceFloor ==
  \A i \in 1..Len(store) : store[i].confidence_score >= CONFIDENCE_THRESHOLD

\* rows are committed for a content whose weak candidate, below the threshold,
\* is not among them
C14_Witness ==
  \E c \in Contents :
    /\ WeakBox(c).conf < CONFIDENCE_THRESHOLD
    /\ \E i \in 1..Len(store) : store[i].image_hash = Md5(c)
    /\ \A i \in 1..Len(store) :
         store[i].image_hash = Md5(c) =>
           store[i].confidence_score # WeakBox(c).conf

\* C15: Bounding-box validity. Every committed row has x1 < x2 and y1 < y2.
C15_BoxValid ==
  \A i \in 1..Len(store) :
    /\ store[i].bbox_x1 < store[i].bbox_x2
    /\ store[i].bbox_y1 < store[i].bbox_y2

\* the i-th image of the run cannot be read
Unreadable(i) == images[i].data = NoData

\* C16: an image whose bytes cannot be read is skipped. The step in which
\* get_image_hash fails sends no statement, calls no detector and writes
\* nothing, and moves on to the next image; process_image is never past the
\* hash on such an image; the only line process_image logs for it is the hash
\* failure (the run's closing line aside); and
\* no row is built, inserted or committed for its path.
C16_UnreadableSkipped ==
  /\ [][(pc = "hash" /\ Unreadable(idx)) =>
          /\ UNCHANGED <<txn, faults, detAns, store, pending, counters>>
          /\ detections' = <<>>
          /\ (pc' = "hash" /\ idx' = idx + 1) \/ pc' = "summary"]_vars
  /\ [](pc \in {"dedup", "correlate", "detect", "insert", "commit"} =>
          ~Unreadable(idx))
  /\ [](\A i \in 1..Len(images) :
          Unreadable(i) =>
            /\ \A l \in LinesOf(i) : l.ev \in {"hash_failed", "complete"}
            /\ \A r \in AllRows : r.image_path # PathOf(images[i]))

\* the loop has passed an unreadable image and committed rows of another one
C16_Witness ==
  /\ store # <<>>
  /\ \E i \in 1..Len(images) :
       /\ Unreadable(i)
       /\ Handled(i)
       /\ \E l \in LinesOf(i) : l.ev = "hash_failed"

\* C17: a missing corpus root is fatal to the run. When main() has returned
\* and IMAGES_DIR does not exist, no image was processed and main returned 1.
C17_RootFailureFatal ==
  (run >= 1 /\ pc = "idle" /\ ~root_exists) =>
    /\ images = <<>>
    /\ processed_count = 0
    /\ exit_code = Some(1)

\* a suffix equals a listed one up to the case of its letters
MatchesListed(ext) ==
  \E x \in IMAGE_EXTENSIONS :
    /\ Len(x) = Len(ext)
    /\ \A i \in 1..Len(x) : ext[i] = x[i] \/ <<ext[i], x[i]>> \in Case

\* the entries of the corpus that are regular files with a listed suffix
ImageFiles ==
  {corpus[i] : i \in {j \in 1..Len(corpus) :
                       corpus[j].kind = "file" /\ MatchesListed(corpus[j].ext)}}

\* C18: discovery. Once find_images has returned, the list holds exactly the
\* regular files under IMAGES_DIR, at any depth, whose suffix is a listed one
\* up to case, each once; and every hash in hand, every logged line and every
\* row built, inserted or committed belongs to one of them.
C18_Discovery ==
  (run = MaxRuns /\ root_exists) =>
    /\ {images[i] : i \in 1..Len(images)} = ImageFiles
    /\ DistinctPaths(images)
    /\ pc \notin {"idle", "summary"} => images[idx] \in ImageFiles
    /\ \A r \in AllRows : r.image_path \in {PathOf(f) : f \in ImageFiles}

\* rows are committed for a file in nested directories whose suffix is in upper
\* case, while a directory with a listed suffix and a file with an unlisted
\* one were left out
C18_Witness ==
  /\ run = MaxRuns
  /\ \E e \in ImageFiles :
       /\ e.dirs # <<>>
       /\ e.ext \notin IMAGE_EXTENSIONS
       /\ PathOf(e) \in StoredPaths
  /\ \E i \in 1..Len(corpus) : corpus[i] \notin ImageFiles

\* both executions have called the detector on a file with hash h and got
\* boxes for it
BothInferred(h) ==
  /\ other.inferred /\ other.rows # <<>> /\ Md5(OtherFile.data) = h
  /\ \E n \in 1..Len(log) : log[n].ev = "found" /\ log[n].hash = h

\* both executions have committed rows with hash h
BothPersisted(h) ==
  \E i, j \in 1..Len(store) :
    /\ store[i].image_hash = h /\ store[j].image_hash = h
    /\ store[i].image_path = PathOf(OtherFile)
    /\ store[j].image_path # PathOf(OtherFile)

\* C19: the dedup check and the save of one fingerprint are atomic across
\* executions. With no failure injected anywhere, two executions never both
\* get boxes from the detector for one hash and never both commit rows for it.
C19_AtomicPerFingerprint ==
  faults = 0 =>
    \A c \in Contents : ~BothInferred(Md5(c)) /\ ~BothPersisted(Md5(c))

\* the steps of process_image and save_detections on one image, in order
OrderWithinImage ==
  {<<"hash", "dedup">>, <<"dedup", "correlate">>, <<"correlate", "detect">>,
   <<"detect", "insert">>, <<"insert", "insert">>, <<"insert", "commit">>}

\* main() is at a step on the current image
AtImage == pc \in {"hash", "dedup", "correlate", "detect", "insert", "commit"}

\* C20: the steps of an image come in the order hash, dedup check, correlate,
\* detect, persist. Every step of a run stays on the current image and takes
\* the next step of the order, or leaves the image for the hash of the next
\* one, or leaves the loop after the last; past the hash the hash in hand is
\* that of the current image's bytes; the dedup check is passed only when the
\* hash has no row or the check itself failed, and past it the image was not
\* skipped; rows are inserted only after the detector returned boxes for the
\* current image and are all rows of it; and no insert of an earlier image is
\* open while a later image is hashed, checked, correlated or detected.
C20_StepOrder ==
  /\ [][AtImage =>
          \/ idx' = idx /\ <<pc, pc'>> \in OrderWithinImage
          \/ idx' = idx + 1 /\ pc' = "hash"
          \/ idx' = idx /\ idx = Len(images) /\ pc' = "summary"]_vars
  /\ [][(pc = "dedup" /\ pc' = "correlate") =>
          \/ image_hash \notin Ledger(store \o pending)
          \/ log' = Append(log, Line("dedup_failed", image_hash, 0))]_vars
  /\ [](pc \in {"dedup", "correlate", "detect", "insert", "commit"} =>
          /\ images[idx].data # NoData
          /\ image_hash = Md5(images[idx].data))
  /\ [](pc \in {"correlate", "detect", "insert", "commit"} => ~Skipped(idx))
  /\ [](pc \in {"insert", "commit"} =>
          /\ \E l \in LinesOf(idx) : l.ev = "found" /\ l.hash = image_hash
          /\ detections # <<>>
          /\ \A i \in 1..Len(detections) :
               detections[i].image_path = PathOf(images[idx])
          /\ \A i \in 1..Len(pending) : pending[i] = detections[i])
  /\ [](pc \in {"hash", "dedup", "correlate", "detect"} => pending = <<>>)

\* the rows of the second image are being committed after the first image
\* went through every step and was committed
C20_Witness ==
  /\ pc = "commit" /\ idx = 2
  /\ PathOf(images[1]) \in StoredPaths
  /\ \E l \in LinesOf(1) : l.ev = "found"
  /\ Len(pending) = Len(detections)

\* the images of the run for which the detector returned boxes
FoundImages ==
  {i \in 1..Len(images) : \E l \in LinesOf(i) : l.ev = "found"}

\* C21: a skipped duplicate causes no further work and is not counted. The
\* step that skips an image changes neither the association, the detector's
\* memory, the rows, nor the counters, and leaves the image; the only line
\* process_image logs for a skipped image is the skip (the run's closing line
\* aside); and the processed count never exceeds the number of images the
\* detector returned boxes for, none of which is a skipped one.
C21_SkipIsInert ==
  /\ [][(pc = "dedup" /\ log' = Append(log, Line("skipped", image_hash, 0))) =>
          /\ UNCHANGED <<assoc, detections, detAns, store, pending, counters>>
          /\ (pc' = "hash" /\ idx' = idx + 1) \/ pc' = "summary"]_vars
  /\ [](\A i \in 1..Len(images) :
          Skipped(i) => \A l \in LinesOf(i) : l.ev \in {"skipped", "complete"})
  /\ [](processed_count <= Cardinality(FoundImages))
  /\ [](\A i \in FoundImages : ~Skipped(i))

\* a second run has skipped every image of a corpus of two and ended with a
\* processed count of 0, the first run having committed rows
C21_Witness ==
  /\ run >= 2 /\ pc = "idle"
  /\ Len(images) = 2
  /\ \A i \in 1..Len(images) : Skipped(i)
  /\ processed_count = 0
  /\ store # <<>>

\* s is an initial part of t
IsPrefix(s, t) == Len(s) <= Len(t) /\ SubSeq(t, 1, Len(s)) = s

\* C22: the detection table is append-only. Every step of every run leaves
\* each committed row in place and unchanged, adding rows at the end if any,
\* so the hashes with a committed row never get fewer; a run ends with all the
\* rows it started with.
C22_AppendOnly ==
  /\ [][IsPrefix(store, store') /\ Ledger(store) \subseteq Ledger(store')]_vars
  /\ [](IsPrefix(store_at_start, store))

\* a later run has added rows behind those an earlier run committed
C22_Witness ==
  /\ run >= 2
  /\ store_at_start # <<>>
  /\ Len(store) > Len(store_at_start)

\* the positions of the committed rows with hash h, and those of them that
\* hold the given box
RowsWithHash(h) == {i \in 1..Len(store) : store[i].image_hash = h}
RowsWithBox(h, box) ==
  {i \in RowsWithHash(h) :
     /\ store[i].confidence_score = box.conf
     /\ store[i].bbox_x1 = box.x1 /\ store[i].bbox_x2 = box.x2}

\* C23: no fingerprint is left half-persisted, wherever a run is stopped. The
\* committed rows of a hash are none, or every box of the detector's answer
\* for that content the same number of times: never some boxes of an
\* inference result without the others.
C23_NoHalfPersisted ==
  \A c \in Contents :
    \/ RowsWithHash(Md5(c)) = {}
    \/ \A ans \in detAns[c] :
         /\ ans # <<>>
         /\ \A j \in 1..Len(ans) :
              Cardinality(RowsWithBox(Md5(c), ans[j])) * Len(ans)
                = Cardinality(RowsWithHash(Md5(c)))

\* the run was stopped after the first of several inserts of an image and
\* before the commit, and the image has no committed row
C23_Witness ==
  /\ pc = "idle" /\ exit_code = Some(0 - 9)
  /\ Len(detections) >= 2 /\ k >= 2
  /\ \A l \in LinesOf(idx) : l.ev \notin {"saved", "save_failed"}
  /\ PathOf(images[idx]) \notin StoredPaths

\* the rows of the summarised table, one per class and position in the class
TableRows == {r \in (1..Len(table.counts)) \X (1..(MaxClasses + 1)) : r[2] <= table.counts[r[1]]}
RowsOfClass(class) == {r \in TableRows : r[1] = class}
RowsWithChannel == {r \in TableRows : ChannelOf(table, r[1]) # None}

\* the counts of the rows of a result, added up
ResultSum(rows) == SumSeq([n \in 1..Len(rows) |-> rows[n].count])

\* C24: the summary agrees with the table. The total is the number of rows;
\* the class list holds distinct classes with their row counts, in
\* non-increasing order of count, as many as there are classes up to the
\* limit, and no class left out has more rows than one listed; the channel
\* list holds distinct non-null channels, in non-increasing order, and its
\* counts add up to the number of rows whose channel is not null.
C24_SummaryConsistent ==
  summary.status = "done" =>
    LET top == summary.top_objects
        chans == summary.by_channel
        listed == {top[n].key : n \in 1..Len(top)}
    IN /\ summary.total = Cardinality(TableRows)
       /\ Len(top) = IF Len(table.counts) < TOP_LIMIT THEN Len(table.counts) ELSE TOP_LIMIT
       /\ Cardinality(listed) = Len(top)
       /\ \A n \in 1..Len(top) : top[n].count = Cardinality(RowsOfClass(top[n].key))
       /\ \A n \in 1..(Len(top) - 1) : top[n].count >= top[n + 1].count
       /\ \A c \in (1..Len(table.counts)) \ listed :
            \A n \in 1..Len(top) : Cardinality(RowsOfClass(c)) <= top[n].count
       /\ Cardinality({chans[n].key : n \in 1..Len(chans)}) = Len(chans)
       /\ \A n \in 1..(Len(chans) - 1) : chans[n].count >= chans[n + 1].count
       /\ ResultSum(chans) = Cardinality(RowsWithChannel)
       /\ ResultSum(chans) <= summary.total

\* a table of more classes than the limit, two listed classes with the same
\* count, and rows without a channel that are in the total only
C24_Witness ==
  /\ summary.status = "done"
  /\ Len(table.counts) > TOP_LIMIT
  /\ Len(summary.top_objects) = TOP_LIMIT
  /\ \E n \in 1..(TOP_LIMIT - 1) :
       summary.top_objects[n].count = summary.top_objects[n + 1].count
  /\ ResultSum(summary.by_channel) < summary.total

\* C25: a database error at one image does not spread to the next. No image
\* is begun on a connection whose transaction an earlier image left failed;
\* and a dedup check during which no new error arises, on a connection that
\* is not lost, skips the image exactly when its hash has a committed row.
C25_ErrorDoesNotSpread ==
  /\ []((pc = "hash" /\ idx > 1) => txn # "aborted")
  /\ [][(pc = "dedup" /\ faults' = faults /\ txn # "broken") =>
          ((pc' # "correlate") <=> (image_hash \in Ledger(store)))]_vars

\* the paths that had a committed row when the running (or last) run started
PathsAtStart == {store_at_start[i].image_path : i \in 1..Len(store_at_start)}

\* C26: persistence under retry. Once a run has committed the rows of an
\* image, every later run over the unchanged corpus skips that image.
C26_PersistedThenSkipped ==
  \A i \in 1..Len(images) :
    (run >= 2 /\ Handled(i) /\ PathOf(images[i]) \in PathsAtStart) => Skipped(i)

\* the (id, channel) keys of a list of messages
KeysOf(rows) == {<<rows[i].id, rows[i].channel>> : i \in 1..Len(rows)}

\* each (id, channel) of the list is carried by one message only
OncePerKey(rows) == Cardinality(KeysOf(rows)) = Len(rows)

\* C27: Message loading is idempotent. Whenever load_raw_messages is at rest
\* and has completed at least once over the unchanged JSON files, whose
\* messages have distinct (id, channel), raw.telegram_messages holds the rows
\* it held after the first completed execution, and each (id, channel) once.
C27_LoadIdempotent ==
  (loader.pc = "idle" /\ loader.done >= 1 /\ OncePerKey(files)) =>
    /\ loaded = loader.after_first
    /\ OncePerKey(loaded)

\* the i-th request raised because its own statement failed
StatementFailed(i) == answers[i].result = "raised" /\ answers[i].cause = "statement"

\* the server stayed reachable from request i to request j
NoLossBetween(i, j) == \A m \in i..j : answers[m].cause # "lost"

\* C28: DatabaseManager recovers from a failed query. A valid query served
\* after a request whose statement failed succeeds, the server having stayed
\* reachable throughout and nothing having closed the connection.
C28_RecoversAfterFailedQuery ==
  \A i \in 1..Len(answers), j \in 1..Len(answers) :
    (i < j /\ StatementFailed(i) /\ NoLossBetween(i, j) /\ answers[j].stmt = "valid") =>
      answers[j].result = "ok"

\* the buckets a detection is counted in
BucketsOf(r) ==
  {b \in {"high", "medium", "low"} :
     \/ b = "high" /\ InHigh(r)
     \/ b = "medium" /\ InMedium(r)
     \/ b = "low" /\ InLow(r)}

\* a fraction between 0 and 1
InUnitInterval(q) == q.den > 0 /\ 0 <= q.num /\ q.num <= q.den

\* C29: Confidence buckets. When yolo_data_quality has completed, every
\* detection it read is counted in exactly one of the buckets high, medium
\* and low, the three counts add up to the number of detections, and the
\* high-confidence ratio and the orphaned ratio taken over that total are
\* between 0 and 1, both 0 when there are no detections.
C29_BucketsPartition ==
  yolo_quality.status = "completed" =>
    /\ \A i \in 1..Len(fct.detections) : Cardinality(BucketsOf(fct.detections[i])) = 1
    /\ yolo_quality.high + yolo_quality.medium + yolo_quality.low = Len(fct.detections)
    /\ yolo_quality.total_detections = Len(fct.detections)
    /\ InUnitInterval(yolo_quality.high_conf_ratio)
    /\ InUnitInterval(yolo_quality.orphaned_ratio)
    /\ fct.detections = <<>> =>
         yolo_quality.high_conf_ratio.num = 0 /\ yolo_quality.orphaned_ratio.num = 0

\* reached: completed on two detections, one exactly at the lower limit of
\* the medium bucket and joined to a message stored twice, one exactly at the
\* limit of the high bucket and orphaned
C29_Witness ==
  /\ yolo_quality.status = "completed"
  /\ Len(fct.detections) = 2
  /\ fct.detections[1].confidence_score = MEDIUM_CONFIDENCE
  /\ fct.detections[1].message_id = Some(1)
  /\ fct.messages = <<1, 1>>
  /\ fct.detections[2].confidence_score = HIGH_CONFIDENCE
  /\ yolo_quality.orphaned_detections = 1
  /\ yolo_quality.medium = 1
  /\ yolo_quality.high = 1

\* telegram_data_quality, its queries answered, returned a score in 0..100
TelegramScoreInRange ==
  (telegram_quality.status # "none" /\ telegram_quality.cause # "query") =>
    /\ telegram_quality.status = "completed"
    /\ telegram_quality.quality_score # None
    /\ telegram_quality.quality_score \in 0..100
    /\ telegram_quality.quality_score =
         TelegramScore(telegram_quality.duplicates + telegram_quality.null_channels
                       + telegram_quality.null_dates)

\* yolo_data_quality, its queries answered, returned a score in 0..100
YoloScoreInRange ==
  yolo_quality.status = "completed" =>
    /\ yolo_quality.quality_score \in 0..100
    /\ fct.detections = <<>> => yolo_quality.quality_score = 30

\* C30: Quality scores. For every content of the tables they read, with
\* every query answered, telegram_data_quality returns the score
\* max(0, 100 - 10 * (duplicates + null channels + null dates)) and
\* yolo_data_quality returns a score, each an integer in 0..100, also when
\* there are no detections.
C30_ScoresInRange ==
  /\ TelegramScoreInRange
  /\ YoloScoreInRange

====
